---- MODULE Spec2Model ----
(***************************************************************************)
(* Model of the HKEX AP/PHIP watcher: src/src/fetch_hkex_ap.py (scrape,     *)
(* classify, dedupe, filter, sort, persist) and src/src/send_email.py       *)
(* (format the summary).                                                    *)
(*                                                                          *)
(* Strings are sequences of atoms.  An atom is a word of the text, written  *)
(* <<kind, a, b, c, cut>>; consecutive atoms are separated by one space.    *)
(* cut = 0 is the whole word, cut = n > 0 its first n characters (what a    *)
(* slice [:300] leaves of it).  The words of the vocabulary are             *)
(*   lbl    "申請人"              dlbl   "發布日期"                          *)
(*   apzh   "申請版本"            phzh   "聆訊後資料集"                      *)
(*   apen   "Application Proof"   phip   "PHIP"                             *)
(*   phdl   "PHıP" (dotless i, U+0131)   ap   "AP"                          *)
(*   gem    "GEM"                 mb     "主板"                             *)
(*   noise  "Market Data"         ws     a tab (extra white space)          *)
(*   name   a letter (a) repeated b times                                   *)
(*   unk    "Unknown Applicant"   nil    the empty word (a trailing space)  *)
(*   ymd    "a-b-c" (year-month-day)    dmy  "c-b-a" (day-month-year)       *)
(*   zh     "a年b月c日"                                                      *)
(*   hpdf   "https://h/d<a>.pdf"   hhtm  "https://h/p<a>.htm"               *)
(*   hphip  "https://h/phip<a>.pdf"                                         *)
(* A calendar date in ISO form is the tuple <<y, m, d>>; None is <<>>.      *)
(***************************************************************************)
EXTENDS Integers, Sequences, FiniteSets, TLC

VARIABLES
    pc,         \* position of main() of fetch_hkex_ap.py, then of send_email.py
    now,        \* hkt_now(): the Hong Kong calendar day of the run
    nav,        \* go_to_ap_page_or_fail: contexts, loop position, last marker check
    raw_rows,   \* build_payload: raw_rows
    parsed,     \* build_payload: parsed_records
    filtered,   \* build_payload: filtered
    payload,    \* build_payload: payload (<<>> until built)
    files,      \* data/latest.json and data/archive/<target>.json
    email,      \* send_email.py: <<subject, body lines>> (<<>> until formatted)
    log,        \* the stages main() has run, in order
    row,        \* row_to_record: the row under classification
    rec,        \* row_to_record: its result, <<>> (None) or <<record>>
    dd_in,      \* dedupe_records: argument
    dd_out,     \* dedupe_records: result
    dd_again    \* dedupe_records applied to its own result

vars == <<pc, now, nav, raw_rows, parsed, filtered, payload, files, email, log,
          row, rec, dd_in, dd_out, dd_again>>

----------------------------------------------------------------------------
(* Bounds *)

MaxTextAtoms == 2    \* words in a row's text
MaxLinks == 2        \* links of a row
MaxLinkAtoms == 1    \* words in a link's text
MaxRows == 3         \* rows scraped in one run
MaxDedupe == 3       \* records handed to dedupe_records
MaxFrames == 2       \* frames of the page besides the main frame

----------------------------------------------------------------------------
(* Sequence helpers *)

Range(s) == {s[i] : i \in 1..Len(s)}

SeqsUpTo(S, n) == UNION {[1..k -> S] : k \in 0..n}

RECURSIVE SelectAtoms(_, _)
\* the atoms of s whose kind is not in kinds (a re.sub / str.replace by "")
SelectAtoms(s, kinds) ==
    IF s = <<>> THEN <<>>
    ELSE IF Head(s)[1] \in kinds THEN SelectAtoms(Tail(s), kinds)
         ELSE <<Head(s)>> \o SelectAtoms(Tail(s), kinds)

RECURSIVE Flatten(_)
Flatten(ss) == IF ss = <<>> THEN <<>> ELSE Head(ss) \o Flatten(Tail(ss))

----------------------------------------------------------------------------
(* Atoms and their characters *)

Atom(k, a, b, c) == <<k, a, b, c, 0>>
Word(k) == <<k, 0, 0, 0, 0>>
Name(letter, n) == <<"name", letter, n, 0, 0>>

Digits(n) == IF n < 10 THEN 1 ELSE IF n < 100 THEN 2 ELSE IF n < 1000 THEN 3 ELSE 4

\* number of characters of the whole word
FullLen(t) ==
    CASE t[1] \in {"lbl"} -> 3
      [] t[1] \in {"dlbl", "apzh", "phip", "phdl"} -> 4
      [] t[1] = "phzh" -> 6
      [] t[1] = "apen" -> 17
      [] t[1] \in {"ap", "mb"} -> 2
      [] t[1] = "gem" -> 3
      [] t[1] = "noise" -> 11
      [] t[1] = "ws" -> 1
      [] t[1] = "nil" -> 0
      [] t[1] = "name" -> t[3]
      [] t[1] = "unk" -> 17
      [] t[1] \in {"ymd", "dmy"} -> Digits(t[2]) + Digits(t[3]) + Digits(t[4]) + 2
      [] t[1] = "zh" -> Digits(t[2]) + Digits(t[3]) + Digits(t[4]) + 3
      [] t[1] \in {"hpdf", "hhtm"} -> 15 + Digits(t[2])
      [] t[1] = "hphip" -> 18 + Digits(t[2])

AtomLen(t) == IF t[5] > 0 THEN t[5] ELSE FullLen(t)

RECURSIVE StrLen(_)
\* len(s): the words and one space between two words
StrLen(s) ==
    IF s = <<>> THEN 0
    ELSE IF Len(s) = 1 THEN AtomLen(s[1])
    ELSE AtomLen(Head(s)) + 1 + StrLen(Tail(s))

RECURSIVE Slice(_, _)
\* s[:n]
Slice(s, n) ==
    IF s = <<>> \/ n <= 0 THEN <<>>
    ELSE IF AtomLen(Head(s)) >= n
         THEN <<[Head(s) EXCEPT ![5] = IF n = FullLen(Head(s)) THEN 0 ELSE n]>>
         ELSE IF Tail(s) = <<>> THEN <<Head(s)>>
         ELSE IF AtomLen(Head(s)) + 1 = n THEN <<Head(s), <<"nil", 0, 0, 0, 0>>>>
              ELSE <<Head(s)>> \o Slice(Tail(s), n - AtomLen(Head(s)) - 1)

\* normalize_spaces: runs of white space become one space, ends stripped
normalize_spaces(s) == SelectAtoms(s, {"ws", "nil"})

----------------------------------------------------------------------------
(* Calendar *)

None == <<>>

IsLeap(y) == (y % 4 = 0 /\ y % 100 # 0) \/ y % 400 = 0

DaysInMonth(y, m) ==
    IF m = 2 THEN (IF IsLeap(y) THEN 29 ELSE 28)
    ELSE IF m \in {4, 6, 9, 11} THEN 30 ELSE 31

\* datetime(y, mo, d) does not raise ValueError
ValidDate(y, m, d) == y \in 1..9999 /\ m \in 1..12 /\ d \in 1..DaysInMonth(y, m)

\* (now - timedelta(days=1)).date().isoformat()
PrevDay(t) ==
    IF t[3] > 1 THEN <<t[1], t[2], t[3] - 1>>
    ELSE IF t[2] > 1 THEN <<t[1], t[2] - 1, DaysInMonth(t[1], t[2] - 1)>>
    ELSE <<t[1] - 1, 12, 31>>

\* the year is written 20\d{2}
Year20(t) == t[2] \in 2000..2099

RECURSIVE FirstOfKind(_, _)
\* re.search: the leftmost atom the pattern of kind k matches, as <<atom>>
FirstOfKind(s, k) ==
    IF s = <<>> THEN <<>>
    ELSE IF Head(s)[1] = k /\ Head(s)[5] = 0 /\ Year20(Head(s)) THEN <<Head(s)>>
    ELSE FirstOfKind(Tail(s), k)

DateOrNone(t) == IF ValidDate(t[2], t[3], t[4]) THEN <<t[2], t[3], t[4]>> ELSE None

parse_any_date_to_iso(text) ==
    IF FirstOfKind(text, "ymd") # <<>> THEN DateOrNone(FirstOfKind(text, "ymd")[1])
    ELSE IF FirstOfKind(text, "dmy") # <<>> THEN DateOrNone(FirstOfKind(text, "dmy")[1])
    ELSE IF FirstOfKind(text, "zh") # <<>> THEN DateOrNone(FirstOfKind(text, "zh")[1])
    ELSE None

----------------------------------------------------------------------------
(* Detection of board, document type, noise, links *)

Kinds(s) == {s[i][1] : i \in 1..Len(s)}

detect_board(text) ==
    IF "gem" \in Kinds(text) THEN "GEM"
    ELSE IF "mb" \in Kinds(text) THEN "Main Board"
    ELSE "None"

\* "phip" in t, "post hearing information pack" in t, "聆訊後資料集" in raw
PhipKinds == {"phip", "phzh", "hphip"}

\* "application proof" in t, "申請版本" in raw
ApPhraseKinds == {"apen", "apzh"}

\* (?<![a-z])ap(?![a-z]) in t
ApAloneKinds == {"ap"}

detect_doc_type(text) ==
    IF Kinds(text) \cap PhipKinds # {} THEN "PHIP"
    ELSE IF Kinds(text) \cap ApPhraseKinds # {} THEN "AP"
    ELSE IF Kinds(text) \cap ApAloneKinds # {} THEN "AP"
    ELSE "None"

looks_like_pdf_link(href) == Kinds(href) \cap {"hpdf", "hphip"} # {}

is_obvious_nav_noise(text) == "noise" \in Kinds(text)

RECURSIVE FirstPdf(_)
FirstPdf(links) ==
    IF links = <<>> THEN <<>>
    ELSE IF looks_like_pdf_link(Head(links).href) THEN <<Head(links).href>>
    ELSE FirstPdf(Tail(links))

\* <<href>>, or <<>> for None
pick_best_link(links) ==
    IF FirstPdf(links) # <<>> THEN FirstPdf(links)
    ELSE IF links # <<>> THEN <<links[1].href>>
    ELSE <<>>

----------------------------------------------------------------------------
(* infer_applicant_name *)

LinkTexts(links) == [i \in 1..Len(links) |-> links[i].text]
LinkHrefs(links) == [i \in 1..Len(links) |-> links[i].href]
NormLinkTexts(links) == [i \in 1..Len(links) |-> normalize_spaces(links[i].text)]

\* the words the label pattern's lookahead stops at
StopKinds == {"apzh", "phzh", "dlbl"}

\* \b(Application Proof|AP|PHIP|Post Hearing Information Pack)\b with re.I,
\* then the replace() calls of the Chinese markers
MarkerKinds == {"apen", "ap", "phip", "phdl", "apzh", "phzh"}

\* the three date patterns removed from the row text
IsDateText(t) == t[1] \in {"ymd", "dmy", "zh"} /\ t[5] = 0 /\ Year20(t)

RECURSIVE DropDates(_)
DropDates(s) ==
    IF s = <<>> THEN <<>>
    ELSE IF IsDateText(Head(s)) THEN DropDates(Tail(s))
    ELSE <<Head(s)>> \o DropDates(Tail(s))

RECURSIVE DropSpace(_)
\* \s* : the leading white space skipped
DropSpace(s) ==
    IF s # <<>> /\ Head(s)[1] \in {"ws", "nil"} THEN DropSpace(Tail(s)) ELSE s

RECURSIVE UpToStop(_)
\* .+? up to the first stop word or the end
UpToStop(s) ==
    IF s = <<>> \/ Head(s)[1] \in StopKinds THEN <<>>
    ELSE <<Head(s)>> \o UpToStop(Tail(s))

RECURSIVE AfterLabel(_)
\* what follows the first "申請人", <<>> when there is none
AfterLabel(s) ==
    IF s = <<>> THEN <<>>
    ELSE IF Head(s)[1] = "lbl" THEN Tail(s)
    ELSE AfterLabel(Tail(s))

\* group 2 of the label pattern, normalized; <<>> when the pattern does not
\* match or matches white space only.  .+? takes at least one character, so
\* the word right after the label belongs to the group even if it is a stop word
LabelCandidate(combined) ==
    LET rest == DropSpace(AfterLabel(combined))
    IN IF rest = <<>> THEN <<>>
       ELSE normalize_spaces(<<Head(rest)>> \o UpToStop(Tail(rest)))

RECURSIVE Longest(_)
\* sorted(link_texts, key=len, reverse=True)[0]: the first of the longest
Longest(ts) ==
    IF Len(ts) = 1 THEN ts[1]
    ELSE LET r == Longest(Tail(ts))
         IN IF StrLen(Head(ts)) >= StrLen(r) THEN Head(ts) ELSE r

NonEmpty(ts) == SelectSeq(ts, LAMBDA t : t # <<>>)

UnknownApplicant == <<Word("unk")>>

NameCut == 300

\* variant: an empty cleaned text is returned as it is
CleanedOrUnknown_NoDefault(cleaned) == Slice(cleaned, NameCut)

\* if not cleaned: return "Unknown Applicant"; return cleaned[:300]
CleanedOrUnknown(cleaned) ==
    IF cleaned = <<>> THEN UnknownApplicant ELSE Slice(cleaned, NameCut)

infer_applicant_name(row_text, links) ==
    LET combined == row_text \o Flatten(NormLinkTexts(links))
        c1 == LabelCandidate(combined)
        link_texts == NonEmpty(NormLinkTexts(links))
        c2 == IF link_texts = <<>> THEN <<>>
              ELSE normalize_spaces(SelectAtoms(Longest(link_texts), MarkerKinds))
        cleaned == normalize_spaces(
                       SelectAtoms(DropDates(SelectAtoms(row_text, MarkerKinds)),
                                   {"gem", "mb"}))
    IN IF c1 # <<>> THEN Slice(c1, NameCut)
       ELSE IF c2 # <<>> THEN Slice(c2, NameCut)
       ELSE CleanedOrUnknown(cleaned)

----------------------------------------------------------------------------
(* row_to_record *)

\* (申請版本|申请版本|聆訊後資料集|聆讯后资料集|Application Proof|PHIP) with re.I;
\* under re.I the pattern letter I also matches U+0131, so "PHıP" is a hint
HintKinds == {"apzh", "phzh", "apen", "phip", "phdl", "hphip"}

has_material_hint(combined) == Kinds(combined) \cap HintKinds # {}

\* the date alternatives after the "發布日期" label:
\* d-m-yyyy with any four digit year, 20yy-m-d, 20yy年m月d日
IsLabelDate(t) ==
    /\ t[5] = 0
    /\ \/ t[1] = "dmy" /\ t[2] \in 1000..9999
       \/ t[1] \in {"ymd", "zh"} /\ Year20(t)

RECURSIVE LabelDate(_)
\* group 2 of the leftmost match of the label pattern, as <<atom>>
LabelDate(s) ==
    IF s = <<>> THEN <<>>
    ELSE IF Head(s)[1] = "dlbl" /\ DropSpace(Tail(s)) # <<>>
            /\ IsLabelDate(Head(DropSpace(Tail(s))))
         THEN <<Head(DropSpace(Tail(s)))>>
    ELSE LabelDate(Tail(s))

RECURSIVE FirstLinkDate(_)
\* for l in links: date_iso = parse(l.text); if date_iso: break
FirstLinkDate(links) ==
    IF links = <<>> THEN None
    ELSE IF parse_any_date_to_iso(Head(links).text) # None
         THEN parse_any_date_to_iso(Head(links).text)
    ELSE FirstLinkDate(Tail(links))

\* the row text tried before the date label
RowDate_TextFirst(text, links, combined) ==
    LET d1 == parse_any_date_to_iso(text)
        d2 == IF d1 = None /\ LabelDate(combined) # <<>>
              THEN parse_any_date_to_iso(LabelDate(combined)) ELSE d1
    IN IF d2 = None THEN FirstLinkDate(links) ELSE d2

RowDate(text, links, combined) ==
    LET d1 == IF LabelDate(combined) # <<>>
              THEN parse_any_date_to_iso(LabelDate(combined)) ELSE None
        d2 == IF d1 = None THEN parse_any_date_to_iso(text) ELSE d1
    IN IF d2 = None THEN FirstLinkDate(links) ELSE d2

RowDocType(links, combined) ==
    IF detect_doc_type(combined) # "None" THEN detect_doc_type(combined)
    ELSE IF detect_doc_type(Flatten(LinkHrefs(links))) # "None"
         THEN detect_doc_type(Flatten(LinkHrefs(links)))
    ELSE "Unknown"

RowBoard(combined) ==
    IF detect_board(combined) # "None" THEN detect_board(combined) ELSE "Unknown"

Combined(r) == r.text \o Flatten(LinkTexts(r.links)) \o Flatten(LinkHrefs(r.links))

\* <<record>>, or <<>> for None
row_to_record(r) ==
    LET combined == Combined(r)
        best_link == pick_best_link(r.links)
        date_iso == RowDate(r.text, r.links, combined)
        applicant_name == infer_applicant_name(r.text, r.links)
    IN IF r.text = <<>> \/ r.links = <<>> THEN <<>>
       ELSE IF is_obvious_nav_noise(r.text) THEN <<>>
       ELSE IF ~has_material_hint(combined) THEN <<>>
       ELSE IF best_link = <<>> \/ best_link[1] = <<>> THEN <<>>
       ELSE IF date_iso = None THEN <<>>
       ELSE IF StrLen(applicant_name) > NameCut THEN <<>>
       ELSE << [applicant_name |-> applicant_name,
                board |-> RowBoard(combined),
                doc_type |-> RowDocType(r.links, combined),
                posting_date_hkt |-> date_iso,
                is_first_filing |-> None,
                sponsors |-> <<>>,
                link |-> best_link[1],
                raw_row_text |-> r.text,
                source_node |-> r.source] >>

----------------------------------------------------------------------------
(* The rows row_to_record is checked on *)

DayA == <<2026, 2, 28>>
DayB == <<2026, 3, 1>>

TextAtoms ==
    { Word("lbl"), Word("dlbl"), Word("apzh"), Word("phdl"), Word("gem"),
      Word("mb"), Word("ws"), Name(1, 301),
      Atom("ymd", 2026, 2, 28), Atom("ymd", 2026, 2, 30) }

LinkAtoms == { Atom("zh", 2026, 3, 1) }

Hrefs == { <<>>, <<Atom("hhtm", 1, 0, 0)>>, <<Atom("hphip", 1, 0, 0)>> }

LinkSet == [text : SeqsUpTo(LinkAtoms, MaxLinkAtoms), href : Hrefs]

RowUniverse ==
    [source : {"tr"}, text : SeqsUpTo(TextAtoms, MaxTextAtoms),
     links : SeqsUpTo(LinkSet, MaxLinks)]

Idle ==
    /\ now = <<>> /\ nav = <<>> /\ raw_rows = <<>> /\ parsed = <<>>
    /\ filtered = <<>> /\ payload = <<>> /\ files = <<>> /\ email = <<>>
    /\ log = <<>>

InitRow ==
    /\ Idle
    /\ pc = "row"
    /\ row \in RowUniverse
    /\ rec = <<>>
    /\ dd_in = <<>> /\ dd_out = <<>> /\ dd_again = <<>>

RowToRecord ==
    /\ pc = "row"
    /\ rec' = row_to_record(row)
    /\ pc' = "row_done"
    /\ UNCHANGED <<now, nav, raw_rows, parsed, filtered, payload, files, email,
                   log, row, dd_in, dd_out, dd_again>>

NextRow == RowToRecord

SpecRow == InitRow /\ [][NextRow]_vars

----------------------------------------------------------------------------
(* The rows the choice of the posting date is checked on: a date label,
   white space, dates of the three formats (one of them 30 February, one
   with a year the label pattern accepts and parse_any_date_to_iso does
   not); the links are those of LinkSet, whose href may carry the hint *)

DateTextAtoms ==
    { Word("dlbl"), Word("ws"),
      Atom("ymd", 2026, 2, 28), Atom("ymd", 2026, 2, 30),
      Atom("dmy", 2026, 3, 2), Atom("dmy", 1999, 3, 2),
      Atom("zh", 2026, 3, 3) }

DateRowUniverse ==
    [source : {"tr"}, text : SeqsUpTo(DateTextAtoms, MaxTextAtoms),
     links : SeqsUpTo(LinkSet, MaxLinks)]

InitDate ==
    /\ Idle
    /\ pc = "row"
    /\ row \in DateRowUniverse
    /\ rec = <<>>
    /\ dd_in = <<>> /\ dd_out = <<>> /\ dd_again = <<>>

SpecDate == InitDate /\ [][NextRow]_vars

----------------------------------------------------------------------------
(* Characters of a string, for the order of str values *)

RECURSIVE DigitChars(_)
DigitChars(n) == IF n < 10 THEN <<48 + n>> ELSE DigitChars(n \div 10) \o <<48 + (n % 10)>>

Repeat(c, n) == [i \in 1..n |-> c]

\* the code points of the whole word
Chars(t) ==
    CASE t[1] = "lbl" -> <<30003, 35531, 20154>>
      [] t[1] = "dlbl" -> <<30332, 24067, 26085, 26399>>
      [] t[1] = "apzh" -> <<30003, 35531, 29256, 26412>>
      [] t[1] = "phzh" -> <<32838, 35338, 24460, 36039, 26009, 38598>>
      [] t[1] = "apen" -> <<65, 112, 112, 108, 105, 99, 97, 116, 105, 111, 110, 32,
                            80, 114, 111, 111, 102>>
      [] t[1] = "phip" -> <<80, 72, 73, 80>>
      [] t[1] = "phdl" -> <<80, 72, 305, 80>>
      [] t[1] = "ap" -> <<65, 80>>
      [] t[1] = "gem" -> <<71, 69, 77>>
      [] t[1] = "mb" -> <<20027, 26495>>
      [] t[1] = "noise" -> <<77, 97, 114, 107, 101, 116, 32, 68, 97, 116, 97>>
      [] t[1] = "ws" -> <<9>>
      [] t[1] = "nil" -> <<>>
      [] t[1] = "name" -> Repeat(119 + t[2], t[3])
      [] t[1] = "unk" -> <<85, 110, 107, 110, 111, 119, 110, 32, 65, 112, 112, 108,
                           105, 99, 97, 110, 116>>
      [] t[1] = "ymd" -> DigitChars(t[2]) \o <<45>> \o DigitChars(t[3]) \o <<45>>
                         \o DigitChars(t[4])
      [] t[1] = "dmy" -> DigitChars(t[4]) \o <<45>> \o DigitChars(t[3]) \o <<45>>
                         \o DigitChars(t[2])
      [] t[1] = "zh" -> DigitChars(t[2]) \o <<24180>> \o DigitChars(t[3]) \o <<26376>>
                        \o DigitChars(t[4]) \o <<26085>>
      [] t[1] = "hpdf" -> <<104, 116, 116, 112, 115, 58, 47, 47, 104, 47, 100>>
                          \o DigitChars(t[2]) \o <<46, 112, 100, 102>>
      [] t[1] = "hhtm" -> <<104, 116, 116, 112, 115, 58, 47, 47, 104, 47, 112>>
                          \o DigitChars(t[2]) \o <<46, 104, 116, 109>>
      [] t[1] = "hphip" -> <<104, 116, 116, 112, 115, 58, 47, 47, 104, 47, 112, 104,
                             105, 112>> \o DigitChars(t[2]) \o <<46, 112, 100, 102>>

AtomChars(t) == IF t[5] > 0 THEN SubSeq(Chars(t), 1, t[5]) ELSE Chars(t)

RECURSIVE StrChars(_)
StrChars(s) ==
    IF s = <<>> THEN <<>>
    ELSE IF Len(s) = 1 THEN AtomChars(s[1])
    ELSE AtomChars(Head(s)) \o <<32>> \o StrChars(Tail(s))

RECURSIVE CharsLeq(_, _)
\* a <= b for two str values: code point by code point, a prefix first
CharsLeq(a, b) ==
    IF a = <<>> THEN TRUE
    ELSE IF b = <<>> THEN FALSE
    ELSE IF Head(a) # Head(b) THEN Head(a) < Head(b)
    ELSE CharsLeq(Tail(a), Tail(b))

StrLeq(s, t) == CharsLeq(StrChars(s), StrChars(t))

----------------------------------------------------------------------------
(* dedupe_records *)

\* variant: the link is left out of the key
RecordKey_NoLink(r) == <<r.posting_date_hkt, r.doc_type>>

RecordKey(r) == <<r.posting_date_hkt, r.doc_type, r.link>>

RECURSIVE DedupeFrom(_, _, _)
DedupeFrom(records, seen, out) ==
    IF records = <<>> THEN out
    ELSE IF RecordKey(Head(records)) \in seen
         THEN DedupeFrom(Tail(records), seen, out)
    ELSE DedupeFrom(Tail(records), seen \cup {RecordKey(Head(records))},
                    Append(out, Head(records)))

dedupe_records(records) == DedupeFrom(records, {}, <<>>)

----------------------------------------------------------------------------
(* build_payload *)

RECURSIVE ParseRows(_)
\* for row in raw_rows: rec = row_to_record(row); if rec: append
ParseRows(rows) ==
    IF rows = <<>> THEN <<>> ELSE row_to_record(Head(rows)) \o ParseRows(Tail(rows))

TargetDate(t) == PrevDay(t)

\* variant: the document type is not looked at
KeepRecord_AnyType(r, target_date) == r.posting_date_hkt = target_date

\* variant: records without a board are dropped too
KeepRecord_BoardOnly(r, target_date) ==
    r.posting_date_hkt = target_date /\ r.doc_type = "AP" /\ r.board # "Unknown"

KeepRecord(r, target_date) == r.posting_date_hkt = target_date /\ r.doc_type = "AP"

FilterRecords(records, target_date) ==
    SelectSeq(records, LAMBDA r : KeepRecord(r, target_date))

board_rank(b) ==
    CASE b = "Main Board" -> 0
      [] b = "GEM" -> 1
      [] b = "Unknown" -> 2
      [] OTHER -> 9

\* variant: the key is the board rank alone
SortKeyLeq_RankOnly(x, y) == board_rank(x.board) <= board_rank(y.board)

\* key(x) <= key(y) for the tuples (board rank, applicant_name)
SortKeyLeq(x, y) ==
    \/ board_rank(x.board) < board_rank(y.board)
    \/ /\ board_rank(x.board) = board_rank(y.board)
       /\ StrLeq(x.applicant_name, y.applicant_name)

RECURSIVE InsertSorted(_, _)
\* x goes behind every element whose key is not greater (list.sort is stable)
InsertSorted(x, sorted) ==
    IF sorted = <<>> THEN <<x>>
    ELSE IF SortKeyLeq(Head(sorted), x) THEN <<Head(sorted)>> \o InsertSorted(x, Tail(sorted))
    ELSE <<x>> \o sorted

RECURSIVE SortRecords(_)
SortRecords(records) ==
    IF records = <<>> THEN <<>>
    ELSE InsertSorted(records[Len(records)], SortRecords(SubSeq(records, 1, Len(records) - 1)))

\* Counter(r.get("doc_type") for r in parsed_records)
DocTypeCounts(records) ==
    [k \in {records[i].doc_type : i \in 1..Len(records)} |->
        Cardinality({i \in 1..Len(records) : records[i].doc_type = k})]

\* Counter(r.get("posting_date_hkt") for r in parsed_records); most_common(10)
\* keeps all of it while there are at most 10 dates
DateCounts(records) ==
    [k \in {records[i].posting_date_hkt : i \in 1..Len(records)} |->
        Cardinality({i \in 1..Len(records) : records[i].posting_date_hkt = k})]

\* variant: the message is always empty
PayloadMessage_Empty(items) == ""

PayloadMessage(items) == IF Len(items) = 0 THEN "No new HKEX AP postings found" ELSE ""

MakePayload(t, rows, records, items) ==
    [generated_at_hkt |-> t,
     target_date_hkt |-> TargetDate(t),
     source |-> "HKEX Application Proof / PHIP page",
     count |-> Len(items),
     items |-> items,
     message |-> PayloadMessage(items),
     debug |-> [raw_row_count |-> Len(rows),
                parsed_record_count |-> Len(records),
                doc_type_distribution |-> DocTypeCounts(records),
                top_dates |-> DateCounts(records),
                debug_dir |-> "data/debug"]]

----------------------------------------------------------------------------
(* save_payload, load_latest: the text of a JSON document is <<"json", value>> *)

json_dumps(value) == <<"json", value>>
json_loads(text) == text[2]

LatestText(p) == json_dumps(p)

\* variant: the archive copy is written without its items
ArchiveText_NoItems(p) == json_dumps([p EXCEPT !.items = <<>>])

ArchiveText(p) == json_dumps(p)

NoFiles == [latest |-> <<>>, archive |-> <<>>]

----------------------------------------------------------------------------
(* format_email_content: a line is a tuple, its first element the kind of line *)

ItemLines(i, item) ==
    << <<"item", i, item.applicant_name>>,
       <<"date", item.posting_date_hkt>>,
       <<"type", item.doc_type>>,
       <<"board", item.board>>,
       <<"link", item.link>>,
       <<"blank">> >>

RECURSIVE EnumerateItems(_, _)
\* for i, item in enumerate(items, start=i)
EnumerateItems(items, i) ==
    IF items = <<>> THEN <<>>
    ELSE ItemLines(i, Head(items)) \o EnumerateItems(Tail(items), i + 1)

EmailSubject(d) == <<"subject", d.target_date_hkt, d.count>>

\* variant: the numbering starts at 0
EmailItemPart_FromZero(d) ==
    IF d.count = 0 THEN << <<"no_new_ap">> >> ELSE EnumerateItems(d.items, 0)

EmailItemPart(d) ==
    IF d.count = 0 THEN << <<"no_new_ap">> >> ELSE EnumerateItems(d.items, 1)

format_email_content(d) ==
    << EmailSubject(d),
       << <<"title">>, <<"target", d.target_date_hkt>>,
          <<"generated", d.generated_at_hkt>>, <<"count", d.count>>, <<"blank">> >>
       \o EmailItemPart(d)
       \o << <<"rule">>, <<"source", d.source>>,
             <<"debug", d.debug.raw_row_count, d.debug.parsed_record_count>> >>
       \o (IF DOMAIN d.debug.doc_type_distribution # {}
           THEN << <<"doctypedist", d.debug.doc_type_distribution>> >> ELSE <<>>) >>

----------------------------------------------------------------------------
(* go_to_ap_page_or_fail *)

\* re.compile(...) entries of patterns
NumPatterns == 5

\* the two click attempts per context and pattern: get_by_role, then locator
NumAttempts == 2

\* what one click attempt can do: no matching link, click() raised (swallowed),
\* clicked and page_has_ap_markers false, clicked and page_has_ap_markers true
AttemptOutcomes == {"nolink", "clickfail", "nomark", "mark"}

NavIdle == [st |-> "idle", contexts |-> 0, ctx |-> 0, pat |-> 0, att |-> 0,
            last |-> "none", err |-> "none"]

\* the function's frame is gone once it has returned or raised
NavReturned(n) == [NavIdle EXCEPT !.st = "returned", !.last = n.last]
NavRaised(n, e) == [NavIdle EXCEPT !.st = "raised", !.last = n.last, !.err = e]

\* variant: the function returns when no link led to the markers
ExhaustedOutcome_Return == "returned"

\* the end of the loops: raise RuntimeError("Did not reach HKEX AP/PHIP page")
ExhaustedOutcome == "raised"

\* variant: after its second attempt the same pair is tried again
NavAdvance_Repeat(n) ==
    IF n.att < NumAttempts THEN [n EXCEPT !.att = n.att + 1]
    ELSE [n EXCEPT !.att = 1]

\* the position after (ctx, pat, att) in the nested loops, "exhausted" at the end
NavAdvance(n) ==
    IF n.att < NumAttempts THEN [n EXCEPT !.att = n.att + 1]
    ELSE IF n.pat < NumPatterns THEN [n EXCEPT !.pat = n.pat + 1, !.att = 1]
    ELSE IF n.ctx < n.contexts THEN [n EXCEPT !.ctx = n.ctx + 1, !.pat = 1, !.att = 1]
    ELSE [n EXCEPT !.st = "exhausted"]

----------------------------------------------------------------------------
(* One run of main() of fetch_hkex_ap.py, then of send_email.py *)

NowDays == { <<2026, 3, 1>>, <<2026, 3, 2>> }

PdfHref(i) == <<Atom("hpdf", i, 0, 0)>>
NoTextLink(i) == <<[text |-> <<>>, href |-> PdfHref(i)]>>
PoolRow(text, links) == [source |-> "tr", text |-> text, links |-> links]

\* the rows the page can show
RowPool ==
    { PoolRow(<<Word("lbl"), Name(2, 2), Word("apzh"), Word("mb"),
                Atom("ymd", 2026, 2, 28)>>, NoTextLink(1)),
      PoolRow(<<Word("lbl"), Name(1, 1), Word("apzh"), Word("gem"),
                Atom("ymd", 2026, 2, 28)>>, NoTextLink(2)),
      PoolRow(<<Name(1, 1), Word("apzh"), Atom("ymd", 2026, 2, 28)>>, NoTextLink(1)),
      PoolRow(<<Word("lbl"), Name(2, 2), Word("phzh"), Atom("ymd", 2026, 2, 28)>>,
              NoTextLink(3)),
      PoolRow(<<Word("lbl"), Name(1, 1), Word("apzh"), Word("mb"),
                Atom("dmy", 2026, 3, 1)>>, NoTextLink(2)),
      PoolRow(<<Word("noise")>>, NoTextLink(4)),
      PoolRow(<<Word("lbl"), Name(1, 2), Word("apzh"), Word("mb"),
                Atom("ymd", 2026, 2, 28)>>, NoTextLink(4)) }

Stages == <<"scrape", "classify", "dedupe", "filter", "sort",
            "write_latest", "write_archive">>

Init ==
    /\ pc = "start"
    /\ now \in NowDays
    /\ nav = NavIdle
    /\ raw_rows = <<>> /\ parsed = <<>> /\ filtered = <<>> /\ payload = <<>>
    /\ files = NoFiles /\ email = <<>> /\ log = <<>>
    /\ row = <<>> /\ rec = <<>>
    /\ dd_in = <<>> /\ dd_out = <<>> /\ dd_again = <<>>

Others == <<row, rec, dd_in, dd_out, dd_again>>

\* page.goto(target_url): the first load, which may time out
Goto1 ==
    /\ pc = "start"
    /\ \E ok \in BOOLEAN :
          IF ok THEN nav' = [nav EXCEPT !.st = "warn"] /\ pc' = "nav"
          ELSE nav' = NavRaised(nav, "goto") /\ pc' = "failed"
    /\ UNCHANGED <<now, raw_rows, parsed, filtered, payload, files, email, log, Others>>

\* click_warning_if_present(page): one pass, every failure swallowed
ClickWarning ==
    /\ pc = "nav" /\ nav.st = "warn"
    /\ nav' = [nav EXCEPT !.st = "goto2"]
    /\ UNCHANGED <<pc, now, raw_rows, parsed, filtered, payload, files, email, log, Others>>

\* the second page.goto(target_url)
Goto2 ==
    /\ pc = "nav" /\ nav.st = "goto2"
    /\ \E ok \in BOOLEAN :
          IF ok THEN nav' = [nav EXCEPT !.st = "check"] /\ pc' = "nav"
          ELSE nav' = NavRaised(nav, "goto") /\ pc' = "failed"
    /\ UNCHANGED <<now, raw_rows, parsed, filtered, payload, files, email, log, Others>>

\* if page_has_ap_markers(page): return; else contexts = [page] + frames
CheckMarkers ==
    /\ pc = "nav" /\ nav.st = "check"
    /\ \E m \in BOOLEAN, f \in 0..MaxFrames :
          IF m THEN nav' = NavReturned([nav EXCEPT !.last = "true"]) /\ pc' = "scrape"
          ELSE /\ nav' = [nav EXCEPT !.st = "loop", !.last = "false",
                                     !.contexts = 1 + f, !.ctx = 1, !.pat = 1, !.att = 1]
               /\ pc' = "nav"
    /\ UNCHANGED <<now, raw_rows, parsed, filtered, payload, files, email, log, Others>>

\* one try block of the loops: find the link, click, check the markers
ClickAttempt ==
    /\ pc = "nav" /\ nav.st = "loop"
    /\ \E o \in AttemptOutcomes :
          IF o = "mark"
          THEN nav' = NavReturned([nav EXCEPT !.last = "true"]) /\ pc' = "scrape"
          ELSE /\ nav' = NavAdvance([nav EXCEPT !.last =
                                        IF o = "nomark" THEN "false" ELSE nav.last])
               /\ pc' = "nav"
    /\ UNCHANGED <<now, raw_rows, parsed, filtered, payload, files, email, log, Others>>

\* the statement after the loops
LoopsExhausted ==
    /\ pc = "nav" /\ nav.st = "exhausted"
    /\ IF ExhaustedOutcome = "raised"
       THEN nav' = NavRaised(nav, "RuntimeError") /\ pc' = "failed"
       ELSE nav' = NavReturned(nav) /\ pc' = "scrape"
    /\ UNCHANGED <<now, raw_rows, parsed, filtered, payload, files, email, log, Others>>

\* the rest of scrape_hkex_rows: the rows of the page and of its marked frames
Scrape ==
    /\ pc = "scrape"
    /\ raw_rows' \in SeqsUpTo(RowPool, MaxRows)
    /\ log' = Append(log, "scrape")
    /\ pc' = "classify"
    /\ UNCHANGED <<now, nav, parsed, filtered, payload, files, email, Others>>

Classify ==
    /\ pc = "classify"
    /\ parsed' = ParseRows(raw_rows)
    /\ log' = Append(log, "classify")
    /\ pc' = "dedupe"
    /\ UNCHANGED <<now, nav, raw_rows, filtered, payload, files, email, Others>>

Dedupe ==
    /\ pc = "dedupe"
    /\ parsed' = dedupe_records(parsed)
    /\ log' = Append(log, "dedupe")
    /\ pc' = "filter"
    /\ UNCHANGED <<now, nav, raw_rows, filtered, payload, files, email, Others>>

Filter ==
    /\ pc = "filter"
    /\ filtered' = FilterRecords(parsed, TargetDate(now))
    /\ log' = Append(log, "filter")
    /\ pc' = "sort"
    /\ UNCHANGED <<now, nav, raw_rows, parsed, payload, files, email, Others>>

Sort ==
    /\ pc = "sort"
    /\ filtered' = SortRecords(filtered)
    /\ log' = Append(log, "sort")
    /\ pc' = "payload"
    /\ UNCHANGED <<now, nav, raw_rows, parsed, payload, files, email, Others>>

\* payload = {...}; return payload
BuildPayload ==
    /\ pc = "payload"
    /\ payload' = <<MakePayload(now, raw_rows, parsed, filtered)>>
    /\ pc' = "save_latest"
    /\ UNCHANGED <<now, nav, raw_rows, parsed, filtered, files, email, log, Others>>

WriteLatest ==
    /\ pc = "save_latest"
    /\ files' = [files EXCEPT !.latest = LatestText(payload[1])]
    /\ log' = Append(log, "write_latest")
    /\ pc' = "save_archive"
    /\ UNCHANGED <<now, nav, raw_rows, parsed, filtered, payload, email, Others>>

WriteArchive ==
    /\ pc = "save_archive"
    /\ files' = [files EXCEPT !.archive =
                    <<payload[1].target_date_hkt, ArchiveText(payload[1])>>]
    /\ log' = Append(log, "write_archive")
    /\ pc' = "saved"
    /\ UNCHANGED <<now, nav, raw_rows, parsed, filtered, payload, email, Others>>

\* send_email.py main(): load_latest, format_email_content
FormatEmail ==
    /\ pc = "saved"
    /\ files.latest # <<>>
    /\ email' = format_email_content(json_loads(files.latest))
    /\ pc' = "emailed"
    /\ UNCHANGED <<now, nav, raw_rows, parsed, filtered, payload, files, log, Others>>

Next ==
    \/ Goto1 \/ ClickWarning \/ Goto2 \/ CheckMarkers \/ ClickAttempt
    \/ LoopsExhausted
    \/ Scrape \/ Classify \/ Dedupe \/ Filter \/ Sort \/ BuildPayload
    \/ WriteLatest \/ WriteArchive \/ FormatEmail

Spec == Init /\ [][Next]_vars

----------------------------------------------------------------------------
(* go_to_ap_page_or_fail on its own.  The function is straight-line code
   with two nested for loops; every browser call in it returns or raises
   within its timeout (goto 60000 ms, click 5000 ms, wait_for_load_state
   10000 ms, wait_for_timeout), so a step that can be taken is taken *)

NextNav ==
    \/ Goto1 \/ ClickWarning \/ Goto2 \/ CheckMarkers \/ ClickAttempt
    \/ LoopsExhausted

SpecNav == Init /\ [][NextNav]_vars /\ WF_vars(NextNav)

----------------------------------------------------------------------------
(* dedupe_records on arbitrary lists of records *)

DedupeRecord(name, doc, date, link) ==
    [applicant_name |-> name, board |-> "Unknown", doc_type |-> doc,
     posting_date_hkt |-> date, is_first_filing |-> None, sponsors |-> <<>>,
     link |-> link, raw_row_text |-> name, source_node |-> "tr"]

DedupeRecords ==
    { DedupeRecord(<<Name(n, 1)>>, doc, date, PdfHref(l)) :
        n \in {1, 2}, doc \in {"AP", "PHIP"}, date \in {DayA, DayB}, l \in {1, 2} }

InitDedupe ==
    /\ Idle
    /\ pc = "dd"
    /\ row = <<>> /\ rec = <<>>
    /\ dd_in \in SeqsUpTo(DedupeRecords, MaxDedupe)
    /\ dd_out = <<>> /\ dd_again = <<>>

DedupeOnce ==
    /\ pc = "dd"
    /\ dd_out' = dedupe_records(dd_in)
    /\ pc' = "dd_once"
    /\ UNCHANGED <<now, nav, raw_rows, parsed, filtered, payload, files, email,
                   log, row, rec, dd_in, dd_again>>

DedupeAgain ==
    /\ pc = "dd_once"
    /\ dd_again' = dedupe_records(dd_out)
    /\ pc' = "dd_done"
    /\ UNCHANGED <<now, nav, raw_rows, parsed, filtered, payload, files, email,
                   log, row, rec, dd_in, dd_out>>

NextDedupe == DedupeOnce \/ DedupeAgain

SpecDedupe == InitDedupe /\ [][NextDedupe]_vars

----------------------------------------------------------------------------
(* Properties *)

RECURSIVE DaysBeforeMonth(_, _)
DaysBeforeMonth(y, m) ==
    IF m = 1 THEN 0 ELSE DaysBeforeMonth(y, m - 1) + DaysInMonth(y, m - 1)

\* the number of the day t, counted from 0001-01-01
Ordinal(t) ==
    365 * (t[1] - 1) + ((t[1] - 1) \div 4) - ((t[1] - 1) \div 100)
    + ((t[1] - 1) \div 400) + DaysBeforeMonth(t[1], t[2]) + t[3]

IsPrefix(a, b) == Len(a) <= Len(b) /\ a = SubSeq(b, 1, Len(a))

Occurrences(x, s) == Cardinality({i \in 1..Len(s) : s[i] = x})

IsPermutation(a, b) ==
    /\ Len(a) = Len(b)
    /\ \A i \in 1..Len(a) : Occurrences(a[i], a) = Occurrences(a[i], b)

Built == payload # <<>>

\* C1: every item of a payload returned by build_payload is posted on the
\* payload's target date, the target date is the day before the Hong Kong day
\* of the run, and every item is an AP document.
C1_ItemsOnTargetDayAndAP ==
    Built =>
        /\ ValidDate(payload[1].target_date_hkt[1], payload[1].target_date_hkt[2],
                     payload[1].target_date_hkt[3])
        /\ Ordinal(payload[1].target_date_hkt) + 1 = Ordinal(now)
        /\ \A i \in 1..Len(payload[1].items) :
              /\ payload[1].items[i].posting_date_hkt = payload[1].target_date_hkt
              /\ payload[1].items[i].doc_type = "AP"

\* a payload with an item, built from records of which one is of another day
\* and one is not an AP document
C1_Witness ==
    /\ Built
    /\ payload[1].count >= 1
    /\ \E i \in 1..Len(parsed) : parsed[i].posting_date_hkt # payload[1].target_date_hkt
    /\ \E i \in 1..Len(parsed) : parsed[i].doc_type # "AP"

\* C2 as stated: every deduplicated record of the target day, AP or PHIP, is
\* an item of the payload.
C2_DateIsOnlyFilter ==
    Built =>
        \A i \in 1..Len(parsed) :
            parsed[i].posting_date_hkt = payload[1].target_date_hkt
                => parsed[i] \in Range(payload[1].items)

\* C2 amended: every deduplicated record of the target day whose document
\* type is AP is an item of the payload (no filter besides date and type).
C2_DateAndTypeAreOnlyFilters ==
    Built =>
        \A i \in 1..Len(parsed) :
            (/\ parsed[i].posting_date_hkt = payload[1].target_date_hkt
             /\ parsed[i].doc_type = "AP")
                => parsed[i] \in Range(payload[1].items)

\* a payload that keeps an AP record without a board and leaves out a PHIP
\* record of the same day
C2_Witness ==
    /\ Built
    /\ \E i \in 1..Len(parsed) :
          /\ parsed[i].posting_date_hkt = payload[1].target_date_hkt
          /\ parsed[i].doc_type = "PHIP"
          /\ parsed[i] \notin Range(payload[1].items)
    /\ \E i \in 1..Len(payload[1].items) : payload[1].items[i].board = "Unknown"

\* C3: when go_to_ap_page_or_fail raises, main() ends there and neither
\* payload file exists; a payload with count 0 is on disk only in a run whose
\* last page_has_ap_markers check returned true.
C3_RaiseWritesNothing ==
    /\ nav.st = "raised" => pc = "failed"
    /\ pc = "failed" => files = NoFiles /\ payload = <<>> /\ nav.st = "raised"
    /\ (files # NoFiles /\ payload[1].count = 0) => nav.last = "true"

\* the loops ran to their end without reaching the markers and the run failed
C3_Witness ==
    /\ pc = "failed"
    /\ nav.err = "RuntimeError"
    /\ nav.last = "false"
    /\ files = NoFiles

\* C4: the stages of main() run once each, in the order scrape, classify,
\* dedupe, filter, sort, write latest.json, write the archive file; no file
\* is written before the sort; after a successful run both files hold the
\* same serialized payload.
C4_StagesInOrder ==
    /\ IsPrefix(log, Stages)
    /\ files # NoFiles =>
          /\ IsPrefix(SubSeq(Stages, 1, 5), log)
          /\ files.latest = json_dumps(payload[1])
          /\ payload[1].items = filtered
    /\ pc \in {"saved", "emailed"} =>
          /\ log = Stages
          /\ files.latest # <<>> /\ files.archive # <<>>
          /\ files.archive[1] = payload[1].target_date_hkt
          /\ files.archive[2] = files.latest

\* a successful run that wrote a payload with two items
C4_Witness ==
    /\ pc = "saved"
    /\ payload[1].count >= 2
    /\ files.archive[2][2].count >= 2

SameKey(a, b) ==
    /\ a.posting_date_hkt = b.posting_date_hkt
    /\ a.doc_type = b.doc_type
    /\ a.link = b.link

RECURSIVE IsSubseq(_, _)
\* a is b with some elements left out
IsSubseq(a, b) ==
    IF a = <<>> THEN TRUE
    ELSE IF b = <<>> THEN FALSE
    ELSE IF Head(a) = Head(b) /\ IsSubseq(Tail(a), Tail(b)) THEN TRUE
    ELSE IsSubseq(a, Tail(b))

FirstWithKey(r, s) == CHOOSE j \in 1..Len(s) :
    SameKey(s[j], r) /\ \A k \in 1..(j - 1) : ~SameKey(s[k], r)

\* C5: the result of dedupe_records is a subsequence of its argument, no two
\* of its records have the same (posting_date_hkt, doc_type, link), every key
\* of the argument has exactly one record in it, the first of the argument
\* with that key, and dedupe_records leaves its own result unchanged.
C5_DedupeKeepsFirstPerKey ==
    /\ pc \in {"dd_once", "dd_done"} =>
          /\ IsSubseq(dd_out, dd_in)
          /\ \A i, j \in 1..Len(dd_out) : SameKey(dd_out[i], dd_out[j]) => i = j
          /\ \A j \in 1..Len(dd_in) :
                /\ \E i \in 1..Len(dd_out) : SameKey(dd_out[i], dd_in[j])
                /\ \A i \in 1..Len(dd_out) :
                      SameKey(dd_out[i], dd_in[j])
                          => dd_out[i] = dd_in[FirstWithKey(dd_in[j], dd_in)]
    /\ pc = "dd_done" => dd_again = dd_out

\* a later record with the key of an earlier one, and another name, is dropped
\* while records of two keys are kept
C5_Witness ==
    /\ pc = "dd_done"
    /\ Len(dd_out) = 2
    /\ Len(dd_in) = 3
    /\ \E j \in 2..Len(dd_in) :
          /\ SameKey(dd_in[j], dd_in[1])
          /\ dd_in[j].applicant_name # dd_in[1].applicant_name

ClaimedRank(b) == IF b = "Main Board" THEN 0 ELSE IF b = "GEM" THEN 1 ELSE 2

\* C6: the items are a permutation of the filtered records, ordered by board
\* (Main Board, GEM, Unknown) and by ascending applicant_name within a board.
C6_ItemsSortedByBoardAndName ==
    Built =>
        /\ IsPermutation(payload[1].items,
              SelectSeq(parsed, LAMBDA r :
                  r.posting_date_hkt = PrevDay(now) /\ r.doc_type = "AP"))
        /\ \A i \in 1..(Len(payload[1].items) - 1) :
              LET x == payload[1].items[i]
                  y == payload[1].items[i + 1]
              IN \/ ClaimedRank(x.board) < ClaimedRank(y.board)
                 \/ /\ ClaimedRank(x.board) = ClaimedRank(y.board)
                    /\ CharsLeq(StrChars(x.applicant_name), StrChars(y.applicant_name))

\* the sort moved a record: two records of one board came in descending name
\* order, and a GEM record is among the items
C6_Witness ==
    /\ Built
    /\ Len(payload[1].items) = 3
    /\ payload[1].items # SelectSeq(parsed, LAMBDA r :
           r.posting_date_hkt = PrevDay(now) /\ r.doc_type = "AP")
    /\ payload[1].items[1].board = payload[1].items[2].board
    /\ payload[1].items[1].applicant_name # payload[1].items[2].applicant_name
    /\ payload[1].items[3].board = "GEM"

RecordFields ==
    {"applicant_name", "board", "doc_type", "posting_date_hkt", "link", "raw_row_text"}

\* C7: a record returned by row_to_record has the six fields, a name of 1 to
\* 300 characters, a board in {Main Board, GEM, Unknown}, a doc_type in
\* {AP, PHIP, Unknown}, a calendar date, a non-empty link that is the href of
\* one of the row's links and a non-empty raw_row_text; a row with empty text
\* or without links yields no record.
C7_RecordFieldsValid ==
    pc = "row_done" =>
        /\ (row.text = <<>> \/ row.links = <<>>) => rec = <<>>
        /\ rec # <<>> =>
              /\ RecordFields \subseteq DOMAIN rec[1]
              /\ StrLen(rec[1].applicant_name) \in 1..300
              /\ Len(StrChars(rec[1].applicant_name)) = StrLen(rec[1].applicant_name)
              /\ rec[1].board \in {"Main Board", "GEM", "Unknown"}
              /\ rec[1].doc_type \in {"AP", "PHIP", "Unknown"}
              /\ rec[1].posting_date_hkt # None
              /\ ValidDate(rec[1].posting_date_hkt[1], rec[1].posting_date_hkt[2],
                           rec[1].posting_date_hkt[3])
              /\ StrLen(rec[1].link) >= 1
              /\ \E i \in 1..Len(row.links) : row.links[i].href = rec[1].link
              /\ StrLen(rec[1].raw_row_text) >= 1

\* a row whose text is only a marker and a date, with two textless links of
\* which the second is the PDF, is accepted: its name is the default and its
\* link the PDF
C7_Witness ==
    /\ pc = "row_done"
    /\ rec # <<>>
    /\ rec[1].applicant_name = UnknownApplicant
    /\ Len(row.links) = 2
    /\ rec[1].link = row.links[2].href
    /\ rec[1].link # row.links[1].href

ItemEntries(body) == SelectSeq(body, LAMBDA line : line[1] = "item")
LineKinds(body) == {body[i][1] : i \in 1..Len(body)}

\* C8: the body made from a built payload lists count entries, numbered
\* 1..count in the order of the items, the count of the subject is the number
\* of entries, and the line for no new filings is there iff count = 0.
C8_EmailListsCountItems ==
    pc = "emailed" =>
        LET entries == ItemEntries(email[2])
        IN /\ Len(entries) = payload[1].count
           /\ \A i \in 1..Len(entries) :
                 /\ entries[i][2] = i
                 /\ entries[i][3] = payload[1].items[i].applicant_name
           /\ email[1][3] = Len(entries)
           /\ ("no_new_ap" \in LineKinds(email[2])) <=> (payload[1].count = 0)

\* an email with two entries
C8_Witness ==
    /\ pc = "emailed"
    /\ Len(ItemEntries(email[2])) = 2
    /\ payload[1].count = 2

\* C9: in a built payload count = len(items), message is the "No new HKEX AP
\* postings" text iff count = 0 and empty otherwise, and
\* count <= debug.parsed_record_count <= debug.raw_row_count.
C9_PayloadCounts ==
    Built =>
        /\ payload[1].count = Len(payload[1].items)
        /\ (payload[1].count = 0) => payload[1].message = "No new HKEX AP postings found"
        /\ (payload[1].count # 0) => payload[1].message = ""
        /\ payload[1].count <= payload[1].debug.parsed_record_count
        /\ payload[1].debug.parsed_record_count <= payload[1].debug.raw_row_count
        /\ payload[1].debug.raw_row_count = Len(raw_rows)

\* an empty payload built from rows of which some were discarded
C9_Witness ==
    /\ Built
    /\ payload[1].count = 0
    /\ payload[1].debug.parsed_record_count = 1
    /\ payload[1].debug.raw_row_count = 3

\* C10 as stated: the doc_type of an accepted row is PHIP if a PHIP marker
\* occurs in the combined text and AP otherwise; it is never Unknown.
C10_DocTypeNeverUnknown ==
    (pc = "row_done" /\ rec # <<>>) =>
        rec[1].doc_type =
            IF Kinds(Combined(row)) \cap {"phip", "phzh", "hphip"} # {}
            THEN "PHIP" ELSE "AP"

----------------------------------------------------------------------------
(* The posting date of a row *)

\* the checks of row_to_record that come before the date is looked for
ReachesDateStep(r) ==
    /\ r.text # <<>> /\ r.links # <<>>
    /\ ~is_obvious_nav_noise(r.text)
    /\ has_material_hint(Combined(r))
    /\ pick_best_link(r.links) # <<>>
    /\ pick_best_link(r.links)[1] # <<>>

\* what the date after the label yields
LabelSource(r) ==
    IF LabelDate(Combined(r)) # <<>>
    THEN parse_any_date_to_iso(LabelDate(Combined(r))) ELSE None

\* what each link text yields, in link order
LinkSources(r) == [i \in 1..Len(r.links) |-> parse_any_date_to_iso(r.links[i].text)]

RECURSIVE FirstYield(_)
\* the first of the sources that is not None, None if there is none
FirstYield(sources) ==
    IF sources = <<>> THEN None
    ELSE IF Head(sources) # None THEN Head(sources)
    ELSE FirstYield(Tail(sources))

RECURSIVE FirstDatePattern(_)
\* the leftmost date of any of the three formats in a text, as <<atom>>
FirstDatePattern(s) ==
    IF s = <<>> THEN <<>>
    ELSE IF IsDateText(Head(s)) THEN <<Head(s)>>
    ELSE FirstDatePattern(Tail(s))

\* the leftmost date pattern of the row text as a calendar date
FirstPatternSource(r) ==
    IF FirstDatePattern(r.text) # <<>>
    THEN DateOrNone(FirstDatePattern(r.text)[1]) ELSE None

\* the date the sources give when tried in order
DateBySources(r, textSource) ==
    FirstYield(<<LabelSource(r), textSource>> \o LinkSources(r))

\* C11 as stated: the posting date comes from the first of these sources
\* that yields a valid date: the date after the label, the leftmost date
\* pattern of the row text, the link texts in link order; a row that got
\* as far as the date is discarded exactly when none of them yields one.
C11_FirstDatePatternInText ==
    (pc = "row_done" /\ ReachesDateStep(row)) =>
        /\ rec = <<>> <=> DateBySources(row, FirstPatternSource(row)) = None
        /\ rec # <<>> =>
               rec[1].posting_date_hkt = DateBySources(row, FirstPatternSource(row))

\* C11 amended: the second source is parse_any_date_to_iso of the row
\* text, which takes the leftmost y-m-d date if the text has one, else the
\* leftmost d-m-y date, else the leftmost Chinese date, and yields None
\* when the date it took is not a calendar date; with that source the
\* posting date is the first date the sources yield in the order label,
\* row text, link texts, and a row that got as far as the date is
\* discarded exactly when no source yields a date.
C11_DateFromFirstYieldingSource ==
    (pc = "row_done" /\ ReachesDateStep(row)) =>
        /\ rec = <<>> <=> DateBySources(row, parse_any_date_to_iso(row.text)) = None
        /\ rec # <<>> =>
               rec[1].posting_date_hkt =
                   DateBySources(row, parse_any_date_to_iso(row.text))

\* the label is followed by 30 February, the row text yields nothing, the
\* first link has no date, and the date is taken from the second link
C11_Witness ==
    /\ pc = "row_done" /\ rec # <<>>
    /\ LabelDate(Combined(row)) # <<>> /\ LabelSource(row) = None
    /\ parse_any_date_to_iso(row.text) = None
    /\ Len(row.links) = 2
    /\ parse_any_date_to_iso(row.links[1].text) = None
    /\ rec[1].posting_date_hkt = parse_any_date_to_iso(row.links[2].text)

----------------------------------------------------------------------------
(* The end of go_to_ap_page_or_fail *)

NavDone == nav.st \in {"returned", "raised"}

\* the number of the attempt (ctx, pat, att) in loop order, from 1
NavPos(n) == ((n.ctx - 1) * NumPatterns + (n.pat - 1)) * NumAttempts + n.att

\* the click attempts of a page with c contexts
NavAttempts(c) == c * NumPatterns * NumAttempts

\* the steps the function can still take: the two page loads, the warning
\* pass and the first marker check, then what is left of the attempts, then
\* the raise
NavStepsLeft(n) ==
    CASE n.st = "idle" -> 5 + NavAttempts(1 + MaxFrames)
      [] n.st = "warn" -> 4 + NavAttempts(1 + MaxFrames)
      [] n.st = "goto2" -> 3 + NavAttempts(1 + MaxFrames)
      [] n.st = "check" -> 2 + NavAttempts(1 + MaxFrames)
      [] n.st = "loop" -> 2 + NavAttempts(n.contexts) - NavPos(n)
      [] n.st = "exhausted" -> 1
      [] OTHER -> 0

\* C12: go_to_ap_page_or_fail ends after a bounded number of steps: the
\* loop position is a context of the page, one of the 5 patterns and one of
\* the 2 attempts; every step uses up one of the steps left (a page load,
\* the warning pass, the marker check or the next attempt in loop order, so
\* no pair is tried again); the function returns only in a step that made
\* a page_has_ap_markers check which returned true; and it always ends,
\* returned or raised.
C12_NavigationEnds ==
    /\ [](nav.st = "loop" =>
            /\ nav.contexts \in 1..(1 + MaxFrames)
            /\ nav.ctx \in 1..nav.contexts
            /\ nav.pat \in 1..NumPatterns
            /\ nav.att \in 1..NumAttempts)
    /\ [](nav.st = "returned" => nav.last = "true")
    /\ [](nav.st = "raised" => nav.err \in {"goto", "RuntimeError"})
    /\ [][/\ NavStepsLeft(nav') < NavStepsLeft(nav)
          /\ nav'.st = "returned" => nav.st \in {"check", "loop"}
          /\ nav'.st = "raised" => nav.st \in {"idle", "goto2", "exhausted"}]_vars
    /\ <>NavDone

\* every attempt of a page with a frame was made and none reached the
\* markers: the raise is the only step left
C12_Witness ==
    /\ pc = "nav" /\ nav.st = "exhausted"
    /\ nav.contexts = 2 /\ nav.ctx = 2
    /\ nav.pat = NumPatterns /\ nav.att = NumAttempts
    /\ nav.last = "false"
    /\ NavStepsLeft(nav) = 1

====
